---- MODULE Spec2Model ----
(***************************************************************************)
(* Model of the recall ledger (src/dataloader/RecallData.py): the SQLite   *)
(* file with its two tables `recall` and `labeled`, the AUTOINCREMENT      *)
(* counter kept in sqlite_sequence, the persistent connection of a `with`  *)
(* scope, and the operations recall / sample_from_recall / label / commit. *)
(*                                                                         *)
(* Every operation runs its statements inside `with <connection> as conn`, *)
(* and the sqlite3 connection context manager commits when the block ends  *)
(* normally and rolls back when it ends by an exception.  Faults of the    *)
(* durable layer are an input of each operation: the statement at which    *)
(* the store raises.                                                       *)
(*                                                                         *)
(* The second half models the knowledge base: the sheet a Dataloader is    *)
(* built from (src/dataloader/Dataloader.py), its flattened pool, the      *)
(* export to_sqlite, and the converter src/scripts/sqlite2xlsx.py that     *)
(* writes a store back to a sheet.                                         *)
(***************************************************************************)
EXTENDS Integers, Sequences, FiniteSets, TLC

\* ---- bounds of the model ------------------------------------------------
\* rows ever written: recall() calls plus rows of `labeled`
MaxWrites == 3

Ques == {"q1", "q2"}
Ans == {"a1", "a2"}
Ids == 1..MaxWrites

\* rows of the loaded sheet, paraphrase cells of the sheet (rows times
\* paraphrase columns), and the largest count asked of sample()
MaxRows == 2
MaxCells == 2
MaxCount == 2

Paths == {"p1", "p2"}

\* ---- state ----------------------------------------------------------------
VARIABLES
    db,      \* the durable content of the ledger file
    conn,    \* self.conn: the persistent connection of a `with` scope
    last,    \* the last call: operation, arguments, outcome
    entry,   \* history (SpecScope only): the durable content at the last
             \* scope entry
    hist     \* history: recall ids ever durable, recall ids promoted, and the
             \* numbers of calls that completed: recall(), label(id, _) that
             \* returned True, label(text, _)

vars == <<db, conn, last, entry, hist>>

VARIABLES
    sheet,   \* the worksheet of the .xlsx file: header row and data rows
    loader,  \* the Dataloader object: _orig_df, _data_pool, _answer_list
    stores,  \* the knowledge store files, by path
    lcall    \* the last call on the knowledge base: operation, arguments, outcome

lvars == <<sheet, loader, stores, lcall>>

allvars == <<vars, lvars>>

\* ---- helpers ----------------------------------------------------------------
RowIds(rows) == {rows[k].id : k \in 1..Len(rows)}

MaxOf(S) == IF S = {} THEN 0 ELSE CHOOSE m \in S : \A x \in S : x <= m

IsPrefix(s, t) == Len(s) <= Len(t) /\ SubSeq(t, 1, Len(s)) = s

\* ---- the store: tables and statements -------------------------------------
\* CREATE TABLE recall / labeled on a file that has none of them: two empty
\* tables, and an AUTOINCREMENT counter that has handed out nothing.
EmptyTables == [recall |-> <<>>, labeled |-> <<>>, seq |-> 0]

NoFile == [exists |-> FALSE, tables |-> EmptyTables]

CreateAlways(file) == EmptyTables

\* CREATE TABLE IF NOT EXISTS (both tables): a no-op on an existing ledger.
CreateIfAbsent(file) == IF file.exists THEN file.tables ELSE EmptyTables

NextIdMaxRowid(d) == MaxOf(RowIds(d.recall)) + 1

\* id INTEGER PRIMARY KEY AUTOINCREMENT: one more than the largest rowid the
\* table has ever held (sqlite_sequence), never less than the present rows.
NextId(d) == MaxOf(RowIds(d.recall) \cup {d.seq}) + 1

\* The table is a b-tree keyed by rowid: a row is stored at its rowid's place.
PlaceRow(rows, row) ==
    LET lo == SelectSeq(rows, LAMBDA r : r.id < row.id)
        hi == SelectSeq(rows, LAMBDA r : r.id > row.id)
    IN lo \o <<row>> \o hi

\* INSERT INTO recall (ques) VALUES (?)
InsertRecall(d, ques) ==
    LET id == NextId(d)
    IN [d EXCEPT !.recall = PlaceRow(d.recall, [id |-> id, ques |-> ques]),
                 !.seq = id]

\* SELECT ques FROM recall WHERE id = ? LIMIT 1 ... fetchone()
SelectQues(d, id) ==
    LET hit == SelectSeq(d.recall, LAMBDA r : r.id = id)
    IN IF hit = <<>> THEN [found |-> FALSE, ques |-> ""]
       ELSE [found |-> TRUE, ques |-> hit[1].ques]

DeleteRecallUpTo(d, id) ==
    [d EXCEPT !.recall = SelectSeq(d.recall, LAMBDA r : r.id > id)]

\* DELETE FROM recall WHERE id = ?
DeleteRecall(d, id) ==
    [d EXCEPT !.recall = SelectSeq(d.recall, LAMBDA r : r.id # id)]

InsertLabeledReplace(d, ques, ans) ==
    [d EXCEPT !.labeled =
        SelectSeq(d.labeled, LAMBDA r : r[1] # ques) \o <<(<<ques, ans>>)>>]

\* INSERT INTO labeled (ques, ans) VALUES (?,?)
InsertLabeled(d, ques, ans) ==
    [d EXCEPT !.labeled = Append(d.labeled, <<ques, ans>>)]

SelectLastRow(d) ==
    IF d.recall = <<>> THEN [found |-> FALSE, id |-> 0, ques |-> ""]
    ELSE [found |-> TRUE, id |-> d.recall[Len(d.recall)].id,
          ques |-> d.recall[Len(d.recall)].ques]

\* SELECT id, ques FROM recall LIMIT 1 ... fetchone(): the first row of the
\* table scan, which walks the b-tree in rowid order.
SelectFirst(d) ==
    IF d.recall = <<>> THEN [found |-> FALSE, id |-> 0, ques |-> ""]
    ELSE [found |-> TRUE, id |-> d.recall[1].id, ques |-> d.recall[1].ques]

\* ---- connections ------------------------------------------------------------
NoConn == [open |-> FALSE, view |-> EmptyTables]

\* `self.conn or sqlite3.connect(self.dbfile)`: what the connection used by an
\* operation sees: the persistent connection's view, or the file's content.
ConnView == IF conn.open THEN conn.view ELSE db

\* The outcome of the statements of a `with` block: the connection's view,
\* whether a transaction was begun (a write was executed), whether the block
\* ended by an exception, and the value it returns.
Body(view, txn, exc, ret) == [view |-> view, txn |-> txn, exc |-> exc, ret |-> ret]

WithExitNoRollback(durable, b, fault) ==
    IF b.exc \/ (fault = "commit" /\ b.txn)
    THEN [durable |-> b.view, view |-> b.view, raised |-> TRUE]
    ELSE [durable |-> b.view, view |-> b.view, raised |-> FALSE]

WithExitNoCommit(durable, b, fault) ==
    IF b.exc \/ (fault = "commit" /\ b.txn)
    THEN [durable |-> durable, view |-> durable, raised |-> TRUE]
    ELSE [durable |-> durable, view |-> b.view, raised |-> FALSE]

\* sqlite3.Connection.__exit__: commit when the block ended normally,
\* roll back when it raised (or when the commit itself fails).
WithExit(durable, b, fault) ==
    IF b.exc \/ (fault = "commit" /\ b.txn)
    THEN [durable |-> durable, view |-> durable, raised |-> TRUE]
    ELSE [durable |-> b.view, view |-> b.view, raised |-> FALSE]

\* ---- bodies of the operations ------------------------------------------------
\* RecallData.recall
RecallBody(c, ques, fault) ==
    IF fault = "insert" THEN Body(c, FALSE, TRUE, "raised")
    ELSE Body(InsertRecall(c, ques), TRUE, FALSE, "None")

\* RecallData.sample_from_recall
SampleBody(c, fault) ==
    IF fault = "select" THEN Body(c, FALSE, TRUE, "raised")
    ELSE Body(c, FALSE, FALSE, IF SelectFirst(c).found THEN "row" ELSE "None")

LabelIdBodyNoCheck(c, id, ans, fault) ==
    LET row == SelectQues(c, id)
    IN IF fault = "select" \/ ~row.found THEN Body(c, FALSE, TRUE, "raised")
       ELSE IF fault = "delete" THEN Body(c, FALSE, TRUE, "raised")
       ELSE IF fault = "insert"
            THEN Body(DeleteRecall(c, id), TRUE, TRUE, "raised")
       ELSE Body(InsertLabeled(DeleteRecall(c, id), row.ques, ans),
                 TRUE, FALSE, "True")

\* RecallData._label_id
LabelIdBody(c, id, ans, fault) ==
    LET row == SelectQues(c, id)
    IN IF fault = "select" THEN Body(c, FALSE, TRUE, "raised")
       ELSE IF ~row.found THEN Body(c, FALSE, FALSE, "False")
       ELSE IF fault = "delete" THEN Body(c, FALSE, TRUE, "raised")
       ELSE IF fault = "insert"
            THEN Body(DeleteRecall(c, id), TRUE, TRUE, "raised")
       ELSE Body(InsertLabeled(DeleteRecall(c, id), row.ques, ans),
                 TRUE, FALSE, "True")

LabelQuesBodyIgnoreDup(c, ques, ans, fault) ==
    IF fault = "insert" THEN Body(c, FALSE, TRUE, "raised")
    ELSE IF \E k \in 1..Len(c.labeled) : c.labeled[k][1] = ques
         THEN Body(c, FALSE, FALSE, "True")
    ELSE Body(InsertLabeled(c, ques, ans), TRUE, FALSE, "True")

\* RecallData._label_ques, and the `return True` of label() after it
LabelQuesBody(c, ques, ans, fault) ==
    IF fault = "insert" THEN Body(c, FALSE, TRUE, "raised")
    ELSE Body(InsertLabeled(c, ques, ans), TRUE, FALSE, "True")

\* The bound of the model: a call that writes a row is taken only while fewer
\* than MaxWrites rows were written.
Room(view) == view.seq + Len(view.labeled) < MaxWrites

\* ---- the record of a call ---------------------------------------------------
\* `fault` is the statement at which the store raised, "none" when the call
\* completed (a fault at a statement the call never reached does not happen).
Call(op, id, ques, ans, fault, ret, session) ==
    [op |-> op, id |-> id, ques |-> ques, ans |-> ans,
     fault |-> IF ret = "raised" THEN fault ELSE "none",
     ret |-> ret, session |-> session]

\* What an operation leaves behind: the file, the persistent connection's
\* view, and the history of ids.
Finish(out, call, promotedId) ==
    /\ db' = out.durable
    /\ conn' = IF conn.open THEN [conn EXCEPT !.view = out.view] ELSE conn
    /\ last' = call
    /\ entry' = entry
    /\ UNCHANGED lvars
    /\ hist' = [ever |-> hist.ever \cup RowIds(out.durable.recall),
                promoted |-> hist.promoted \cup promotedId,
                recalls |-> hist.recalls
                    + (IF call.op = "recall" /\ call.ret = "None" THEN 1 ELSE 0),
                promotions |-> hist.promotions
                    + (IF call.op = "label_id" /\ call.ret = "True" THEN 1 ELSE 0),
                texts |-> hist.texts
                    + (IF call.op = "label_ques" /\ call.ret = "True" THEN 1 ELSE 0)]

\* ---- initial state: RecallData(dbfile) on a path that holds no ledger -------
Init ==
    /\ db = CreateIfAbsent(NoFile)
    /\ conn = NoConn
    /\ last = Call("init", 0, "", "", "none", "None", FALSE)
    /\ entry = EmptyTables
    /\ hist = [ever |-> {}, promoted |-> {},
               recalls |-> 0, promotions |-> 0, texts |-> 0]

\* ---- operations --------------------------------------------------------------
\* RecallData.__init__ on the existing ledger file (a later opening).
Reopen ==
    /\ ~conn.open
    /\ db' = CreateIfAbsent([exists |-> TRUE, tables |-> db])
    /\ conn' = NoConn
    /\ last' = Call("init", 0, "", "", "none", "None", FALSE)
    /\ UNCHANGED <<entry, hist, lvars>>

\* RecallData.__enter__
Enter ==
    /\ ~conn.open
    /\ conn' = [open |-> TRUE, view |-> db]
    /\ last' = Call("enter", 0, "", "", "none", "None", TRUE)
    /\ UNCHANGED <<db, entry, hist, lvars>>

\* RecallData.__enter__, with the content of the file at that moment recorded
EnterRecorded ==
    /\ ~conn.open
    /\ conn' = [open |-> TRUE, view |-> db]
    /\ last' = Call("enter", 0, "", "", "none", "None", TRUE)
    /\ entry' = db
    /\ UNCHANGED <<db, hist, lvars>>

ScopeExitSwallow(c, durable, exc) ==
    [durable |-> IF exc THEN durable ELSE c.view, conn |-> NoConn, ret |-> "None"]

\* RecallData.__exit__: commit unless an exception came, close the connection
\* (an uncommitted transaction, if any, is dropped with it), self.conn = None.
\* It returns None, so the exception it was given goes on to the caller.
ScopeExit(c, durable, exc) ==
    [durable |-> IF exc THEN durable ELSE c.view,
     conn |-> NoConn,
     ret |-> IF exc THEN "raised" ELSE "None"]

\* RecallData.__exit__ with exc_type None
ExitClean ==
    /\ conn.open
    /\ LET x == ScopeExit(conn, db, FALSE)
       IN /\ db' = x.durable
          /\ conn' = x.conn
          /\ last' = Call("exit", 0, "", "", "none", x.ret, TRUE)
    /\ hist' = [hist EXCEPT !.ever = @ \cup RowIds(conn.view.recall)]
    /\ UNCHANGED <<entry, lvars>>

\* RecallData.__exit__ with the exception raised inside the scope
ExitFail ==
    /\ conn.open
    /\ LET x == ScopeExit(conn, db, TRUE)
       IN /\ db' = x.durable
          /\ conn' = x.conn
          /\ last' = Call("exit", 0, "", "", "none", x.ret, TRUE)
    /\ UNCHANGED <<entry, hist, lvars>>

\* RecallData.commit
Commit ==
    /\ db' = IF conn.open THEN conn.view ELSE db
    /\ last' = Call("commit", 0, "", "", "none", "None", conn.open)
    /\ hist' = [hist EXCEPT !.ever = @ \cup RowIds(db'.recall)]
    /\ UNCHANGED <<conn, entry, lvars>>

\* RecallData.recall
Recall(ques, fault) ==
    /\ Room(ConnView)
    /\ LET b == RecallBody(ConnView, ques, fault)
           out == WithExit(db, b, fault)
       IN Finish(out,
                 Call("recall", 0, ques, "", fault,
                      IF out.raised THEN "raised" ELSE b.ret, conn.open),
                 {})

\* RecallData.sample_from_recall
SampleFromRecall(fault) ==
    LET b == SampleBody(ConnView, fault)
        out == WithExit(db, b, fault)
        row == SelectFirst(ConnView)
    IN Finish(out,
              Call("sample", IF b.ret = "row" THEN row.id ELSE 0,
                   IF b.ret = "row" THEN row.ques ELSE "", "", fault,
                   IF out.raised THEN "raised" ELSE b.ret, conn.open),
              {})

\* RecallData.label with an int: _label_id
LabelById(id, ans, fault) ==
    /\ SelectQues(ConnView, id).found => Room(ConnView)
    /\ LET b == LabelIdBody(ConnView, id, ans, fault)
           out == WithExit(db, b, fault)
           ret == IF out.raised THEN "raised" ELSE b.ret
       IN Finish(out, Call("label_id", id, "", ans, fault, ret, conn.open),
                 IF ret = "True" THEN {id} ELSE {})

\* RecallData.label with a str: _label_ques
LabelByText(ques, ans, fault) ==
    /\ Room(ConnView)
    /\ LET b == LabelQuesBody(ConnView, ques, ans, fault)
           out == WithExit(db, b, fault)
       IN Finish(out,
                 Call("label_ques", 0, ques, ans, fault,
                      IF out.raised THEN "raised" ELSE b.ret, conn.open),
                 {})

\* RecallData.label with neither an int nor a str: raise TypeError
LabelBadType(ans) ==
    /\ last' = Call("label_other", 0, "", ans, "none", "raised", conn.open)
    /\ UNCHANGED <<db, conn, entry, hist, lvars>>

Ops ==
    \/ Reopen
    \/ ExitClean
    \/ ExitFail
    \/ Commit
    \/ \E q \in Ques, f \in {"none", "insert", "commit"} : Recall(q, f)
    \/ \E f \in {"none", "select"} : SampleFromRecall(f)
    \/ \E i \in Ids, a \in Ans,
          f \in {"none", "select", "delete", "insert", "commit"} :
            LabelById(i, a, f)
    \/ \E q \in Ques, a \in Ans, f \in {"none", "insert", "commit"} :
            LabelByText(q, a, f)
    \/ \E a \in Ans : LabelBadType(a)

\* ==== the knowledge base =====================================================
\* ---- texts and cells ---------------------------------------------------------
\* A text is told by its kind and a number; NaN is the empty cell as pandas
\* (NaN) and openpyxl (None) give it.
Text(kind, n) == [kind |-> kind, n |-> n]

NaN == Text("nan", 0)

\* pd.isnull
IsNull(cell) == cell = NaN

\* The header cells: the sheet's column titles (in the source they are the
\* Chinese words for "main question", "answer", "standard answer", "form").
ColMain == "zhu wen ti"
ColAnswer == "da an"
ColStdAnswer == "biao zhun da an"
ColForm == "wen fa"
ColUnnamed == "Unnamed"

Pad(cells, width, filler) ==
    cells \o [k \in 1..(width - Len(cells)) |-> filler]

\* ---- Dataloader ---------------------------------------------------------------
\* pd.read_excel(filename, sheet_name): the first row names the columns, a
\* column without title is "Unnamed: k", short rows are filled with NaN; the
\* index is the 0-based position of the data row.
ReadExcel(sh) ==
    LET width == MaxOf({Len(sh.header)} \cup {Len(sh.rows[k]) : k \in 1..Len(sh.rows)})
    IN [columns |-> Pad(sh.header, width, ColUnnamed),
        rows |-> [k \in 1..Len(sh.rows) |-> Pad(sh.rows[k], width, NaN)]]

\* One row of df.itertuples(): row[0] is the index, row[1] the main question,
\* row[2] the answer, row[3:] the forms.
Forms(cells) == SubSeq(cells, 3, Len(cells))

FlattenRowNoSelf(cells, idx) ==
    LET forms == SelectSeq(Forms(cells), LAMBDA c : ~IsNull(c))
    IN [k \in 1..Len(forms) |-> [form |-> forms[k], main |-> cells[1], id |-> idx]]

\* Dataloader.flatten_data, the body of the outer loop: a sample for every
\* form that is not null, then the main question as a form of itself.
FlattenRow(cells, idx) ==
    LET forms == SelectSeq(Forms(cells), LAMBDA c : ~IsNull(c))
    IN [k \in 1..Len(forms) |-> [form |-> forms[k], main |-> cells[1], id |-> idx]]
       \o << [form |-> cells[1], main |-> cells[1], id |-> idx] >>

RECURSIVE FlattenFrom(_, _)
FlattenFrom(rows, k) ==
    IF k > Len(rows) THEN <<>>
    ELSE FlattenRow(rows[k], k - 1) \o FlattenFrom(rows, k + 1)

\* Dataloader.flatten_data
FlattenData(df) == FlattenFrom(df.rows, 1)

ColumnIndex(columns, name) ==
    IF \E k \in 1..Len(columns) : columns[k] = name
    THEN CHOOSE k \in 1..Len(columns) :
            columns[k] = name /\ \A j \in 1..(k - 1) : columns[j] # name
    ELSE 0

NoLoader == [ok |-> FALSE, df |-> [columns |-> <<>>, rows |-> <<>>],
             pool |-> <<>>, answers |-> <<>>]

\* Dataloader.__init__: read the sheet, flatten it, take the column titled
\* "da an" as the answer list (KeyError when the sheet has no such column).
DataloaderInit(sh) ==
    LET df == ReadExcel(sh)
        col == ColumnIndex(df.columns, ColAnswer)
    IN IF col = 0 THEN NoLoader
       ELSE [ok |-> TRUE, df |-> df, pool |-> FlattenData(df),
             answers |-> [k \in 1..Len(df.rows) |-> df.rows[k][col]]]

\* Dataloader.__len__
Size(l) == Len(l.pool)

SampleOutcomesWithReplacement(pool, count) ==
    [1..count -> 1..Len(pool)]

\* random.sample(self._data_pool, count): the positions it may pick, in the
\* order picked: `count` different ones; none (ValueError) when count exceeds
\* the pool.
SampleOutcomes(pool, count) ==
    {f \in [1..count -> 1..Len(pool)] :
        \A i, j \in 1..count : i # j => f[i] # f[j]}

GetAnswerClamped(l, idx) ==
    IF l.answers = <<>> THEN [raised |-> TRUE, value |-> NaN]
    ELSE IF idx < 0 THEN [raised |-> FALSE, value |-> l.answers[1]]
    ELSE IF idx >= Len(l.answers)
         THEN [raised |-> FALSE, value |-> l.answers[Len(l.answers)]]
    ELSE [raised |-> FALSE, value |-> l.answers[idx + 1]]

\* Dataloader.get_answer: self._answer_list[main_ques_idx], a lookup by index
\* label (KeyError for a label the index does not have).
GetAnswer(l, idx) ==
    IF idx \in 0..(Len(l.answers) - 1)
    THEN [raised |-> FALSE, value |-> l.answers[idx + 1]]
    ELSE [raised |-> TRUE, value |-> NaN]

\* ---- the knowledge store: Dataloader.to_sqlite ----------------------------------
\* A store file: whether the path exists, and the rows of its tables
\* main_ques (id, ques, ans) and sub_ques (id, ques, main_ques_id).
NoStore == [exists |-> FALSE, main |-> <<>>, sub |-> <<>>]

\* to_sqlite, the insert into main_ques of every row of df.itertuples():
\* row_id, main_ques, ans = row[:3]
MainRows(df) ==
    [k \in 1..Len(df.rows) |->
        [id |-> k - 1, ques |-> df.rows[k][1], ans |-> df.rows[k][2]]]

SubRowsOfNoCanonical(cells, idx) ==
    LET subs == SelectSeq(Forms(cells), LAMBDA c : ~IsNull(c))
    IN [k \in 1..Len(subs) |-> [ques |-> subs[k], main_ques_id |-> idx]]

\* to_sqlite, the inserts into sub_ques for one row: every sub_ques of row[3:]
\* that is not null, then the main question itself.
SubRowsOf(cells, idx) ==
    LET subs == SelectSeq(Forms(cells), LAMBDA c : ~IsNull(c))
    IN [k \in 1..Len(subs) |-> [ques |-> subs[k], main_ques_id |-> idx]]
       \o << [ques |-> cells[1], main_ques_id |-> idx] >>

RECURSIVE SubFrom(_, _)
SubFrom(rows, k) ==
    IF k > Len(rows) THEN <<>>
    ELSE SubRowsOf(rows[k], k - 1) \o SubFrom(rows, k + 1)

\* The rows of sub_ques after the loop; `id` is AUTOINCREMENT in a new table.
SubRows(df) ==
    LET s == SubFrom(df.rows, 1)
    IN [k \in 1..Len(s) |->
          [id |-> k, ques |-> s[k].ques, main_ques_id |-> s[k].main_ques_id]]

\* ques and ans are NOT NULL columns: a NaN is bound as NULL.
HasNullKey(df) ==
    \E k \in 1..Len(df.rows) : IsNull(df.rows[k][1]) \/ IsNull(df.rows[k][2])

ToSqliteOverwrite(st, l, fault) ==
    IF fault \/ HasNullKey(l.df)
    THEN [store |-> [exists |-> TRUE, main |-> <<>>, sub |-> <<>>],
          ret |-> "raised"]
    ELSE [store |-> [exists |-> TRUE, main |-> MainRows(l.df),
                     sub |-> SubRows(l.df)],
          ret |-> "ok"]

\* Dataloader.to_sqlite on the file `st`: refuse an existing path; else create
\* the two tables (DDL, committed at once) and insert inside one transaction,
\* which `with sqlite3.connect(path) as conn` commits, or rolls back when an
\* insert raises (`fault`, or a NULL key).
ToSqlite(st, l, fault) ==
    IF st.exists THEN [store |-> st, ret |-> "AssertionError"]
    ELSE IF fault \/ HasNullKey(l.df)
    THEN [store |-> [exists |-> TRUE, main |-> <<>>, sub |-> <<>>],
          ret |-> "raised"]
    ELSE [store |-> [exists |-> TRUE, main |-> MainRows(l.df),
                     sub |-> SubRows(l.df)],
          ret |-> "ok"]

\* ---- the converter: scripts/sqlite2xlsx.py -------------------------------------
\* The data rows of the worksheet are a sequence of rows of cells; data row r
\* is worksheet row r + 1.
\* worksheet.cell(row, column, value)
SetCell(rows, r, c, v) ==
    LET grown == Pad(rows, r, <<>>)
        row == Pad(grown[r], c, NaN)
    IN [grown EXCEPT ![r] = [row EXCEPT ![c] = v]]

\* worksheet.max_column: the header has three cells
MaxColumn(rows) == MaxOf({3} \cup {Len(rows[k]) : k \in 1..Len(rows)})

FirstEmptyCellAlwaysThird(rows, r) == 3

\* get_first_empty_cell(ws, row): ws[row] is the cells 1..max_column of the row
FirstEmptyCell(rows, r) ==
    LET row == Pad(IF r <= Len(rows) THEN rows[r] ELSE <<>>, MaxColumn(rows), NaN)
    IN IF \E k \in 1..Len(row) : IsNull(row[k])
       THEN CHOOSE k \in 1..Len(row) :
               IsNull(row[k]) /\ \A j \in 1..(k - 1) : ~IsNull(row[j])
       ELSE Len(row) + 1

\* for id_, ques, ans in main_ques: cells (id_ + 2, 1) and (id_ + 2, 2)
RECURSIVE PlaceMains(_, _, _)
PlaceMains(rows, main, k) ==
    IF k > Len(main) THEN rows
    ELSE PlaceMains(SetCell(SetCell(rows, main[k].id + 1, 1, main[k].ques),
                            main[k].id + 1, 2, main[k].ans),
                    main, k + 1)

\* for ques, main_ques_id in sub_ques: the first empty cell of row
\* main_ques_id + 2
RECURSIVE PlaceSubs(_, _, _)
PlaceSubs(rows, sub, k) ==
    IF k > Len(sub) THEN rows
    ELSE PlaceSubs(SetCell(rows, sub[k].main_ques_id + 1,
                           FirstEmptyCell(rows, sub[k].main_ques_id + 1),
                           sub[k].ques),
                   sub, k + 1)

\* The "knowledge" worksheet written from the store `st`.
Sqlite2Xlsx(st) ==
    [header |-> <<ColMain, ColStdAnswer, ColForm>>,
     rows |-> PlaceSubs(PlaceMains(<<>>, st.main, 1), st.sub, 1)]

\* ---- the knowledge base: state and calls ---------------------------------------
\* The sheets a Dataloader is built from: the titles "zhu wen ti", "da an" and
\* one per paraphrase column; row k holds its main question, its answer, and
\* in every paraphrase cell nothing, the main question again, or a form.
SheetOf(r, w, f) ==
    [header |-> <<ColMain, ColAnswer>> \o [j \in 1..w |-> ColForm],
     rows |-> [k \in 1..r |->
                 <<Text("main", k), Text("ans", k)>> \o
                 [j \in 1..w |->
                    CASE f[k][j] = "nan" -> NaN
                      [] f[k][j] = "main" -> Text("main", k)
                      [] OTHER -> Text("form", 1)]],
     src |-> "orig"]

Sheets ==
    UNION { { SheetOf(p[1], p[2], f) :
                f \in [1..p[1] -> [1..p[2] -> {"nan", "main", "form"}]] } :
            p \in { q \in (0..MaxRows) \X (0..MaxCells) :
                      q[1] * q[2] <= MaxCells /\ (q[1] = 0 => q[2] = 0) } }

LCall(op, path, n, ret, picks, value) ==
    [op |-> op, path |-> path, n |-> n, ret |-> ret, picks |-> picks,
     value |-> value]

\* The ledger alone: no sheet was loaded, no store exported.
LoaderIdle ==
    /\ sheet = [header |-> <<>>, rows |-> <<>>, src |-> "orig"]
    /\ loader = NoLoader
    /\ stores = [p \in Paths |-> NoStore]
    /\ lcall = LCall("none", "", 0, "None", <<>>, NaN)

\* A Dataloader was constructed from a sheet; no store exists yet.
LoaderStart ==
    /\ sheet \in Sheets
    /\ loader = DataloaderInit(sheet)
    /\ stores = [p \in Paths |-> NoStore]
    /\ lcall = LCall("load", "", 0, "ok", <<>>, NaN)

\* Dataloader(filename, sheet_name) on the sheet as it is now; when the
\* constructor raises there is no Dataloader.
Load ==
    /\ LET l == DataloaderInit(sheet)
       IN /\ loader' = l
          /\ lcall' = LCall("load", "", 0, IF l.ok THEN "ok" ELSE "raised",
                            <<>>, NaN)
    /\ UNCHANGED <<sheet, stores, vars>>

\* Dataloader.to_sqlite(path)
ToSqliteCall(path, fault) ==
    /\ loader.ok
    /\ LET x == ToSqlite(stores[path], loader, fault)
       IN /\ stores' = [stores EXCEPT ![path] = x.store]
          /\ lcall' = LCall("to_sqlite", path, 0, x.ret, <<>>, NaN)
    /\ UNCHANGED <<sheet, loader, vars>>

\* python sqlite2xlsx.py input_db output_xlsx, the output being the sheet file
\* (the overwrite prompt answered yes); a missing input_db ends the script
\* before anything is written.
Convert(path) ==
    /\ IF stores[path].exists
       THEN /\ sheet' = [header |-> Sqlite2Xlsx(stores[path]).header,
                         rows |-> Sqlite2Xlsx(stores[path]).rows,
                         src |-> path]
            /\ lcall' = LCall("convert", path, 0, "ok", <<>>, NaN)
       ELSE /\ sheet' = sheet
            /\ lcall' = LCall("convert", path, 0, "not found", <<>>, NaN)
    /\ UNCHANGED <<loader, stores, vars>>

\* Dataloader.sample(count)
Sample(count) ==
    /\ loader.ok
    /\ IF SampleOutcomes(loader.pool, count) = {}
       THEN lcall' = LCall("sample", "", count, "raised", <<>>, NaN)
       ELSE \E picks \in SampleOutcomes(loader.pool, count) :
               lcall' = LCall("sample", "", count, "ok", picks, NaN)
    /\ UNCHANGED <<sheet, loader, stores, vars>>

\* Dataloader.get_answer(main_ques_idx)
GetAnswerCall(idx) ==
    /\ loader.ok
    /\ LET x == GetAnswer(loader, idx)
       IN lcall' = LCall("get_answer", "", idx,
                         IF x.raised THEN "raised" ELSE "ok", <<>>, x.value)
    /\ UNCHANGED <<sheet, loader, stores, vars>>

\* ---- specifications --------------------------------------------------------------
Next == Enter \/ Ops

\* The ledger after construction, no knowledge base in use.
InitIdle == Init /\ LoaderIdle

Spec == InitIdle /\ [][Next]_allvars

\* The same program, with the history variable `entry` kept.
NextScope == EnterRecorded \/ Ops

SpecScope == InitIdle /\ [][NextScope]_allvars

\* The Dataloader in service: sample and get_answer on the loaded pool.
NextPool ==
    \/ \E n \in 0..MaxCount : Sample(n)
    \/ \E i \in (0 - 1)..MaxRows : GetAnswerCall(i)

\* A Dataloader after construction.
InitLoaded == Init /\ LoaderStart

SpecPool == InitLoaded /\ [][NextPool]_allvars

\* The manual loop: export the loaded table, convert a store to a sheet, load
\* the sheet again.
NextStore ==
    \/ Load
    \/ \E p \in Paths, f \in BOOLEAN : ToSqliteCall(p, f)
    \/ \E p \in Paths : Convert(p)

SpecStore == InitLoaded /\ [][NextStore]_allvars

\* ---- properties ------------------------------------------------------------------
\* What the properties read off a table, written without the statements above.
HasId(rows, id) == \E k \in 1..Len(rows) : rows[k].id = id

QuesOfId(rows, id) == (CHOOSE k \in 1..Len(rows) : rows[k].id = id)

Without(rows, id) == SelectSeq(rows, LAMBDA r : r.id # id)

\* C1: label-by-id is exactly-once.  A call label(i, _) that succeeds is the
\* first one to succeed for i; once a label(i, _) has succeeded, every later
\* label(i, _) that the store lets complete returns False and adds no row to
\* `labeled`, whatever recall() calls happened in between.
C1_LabelByIdExactlyOnce ==
    [][ /\ (last'.op = "label_id" /\ last'.ret = "True")
            => last'.id \notin hist.promoted
        /\ (last'.op = "label_id" /\ last'.id \in hist.promoted
                /\ last'.fault # "select")
            => (last'.ret = "False" /\ db'.labeled = db.labeled) ]_vars

\* A second label of a promoted id was refused after a later recall().
C1_Witness ==
    /\ last.op = "label_id"
    /\ last.ret = "False"
    /\ last.id \in hist.promoted
    /\ \E j \in hist.ever : j > last.id

\* C2: label(id, answer) with id present in `recall` is atomic.  Either it
\* returns True, the entry is gone from `recall`, the others are unchanged and
\* exactly one row (recalled text, answer) was appended to `labeled`; or it
\* raises and the ledger is as before (a delete whose insert failed is
\* undone): no durable state has the entry in neither table or in both.
C2_LabelByIdAtomic ==
    [][ (last'.op = "label_id" /\ HasId(db.recall, last'.id)) =>
          LET id == last'.id
              ques == db.recall[QuesOfId(db.recall, id)].ques
          IN \/ /\ last'.ret = "True"
                /\ db'.recall = Without(db.recall, id)
                /\ db'.labeled = Append(db.labeled, <<ques, last'.ans>>)
             \/ /\ last'.ret = "raised"
                /\ last'.fault # "none"
                /\ db' = db ]_vars

\* The insert into `labeled` failed after the delete: the entry is still in
\* `recall`, next to another entry, and no row was added.
C2_Witness ==
    /\ last.op = "label_id"
    /\ last.fault = "insert"
    /\ last.ret = "raised"
    /\ HasId(db.recall, last.id)
    /\ Len(db.recall) = 2

\* C3: after a failure is signaled inside a session scope, none of the writes
\* made by the recall() and label() calls of that scope is in the durable
\* ledger: `recall` and `labeled` are exactly as they were at scope entry.
C3_FailedScopeDiscardsWrites ==
    (last.op = "exit" /\ last.ret = "raised") =>
        (db.recall = entry.recall /\ db.labeled = entry.labeled)

\* C4: inside a session scope the durable commit is deferred until scope exit:
\* while the scope is open, a second reader of the ledger file sees the tables
\* as they were at scope entry.
C4_CommitDeferredToScopeExit ==
    conn.open => (db.recall = entry.recall /\ db.labeled = entry.labeled)

\* C5: label(id, answer) with id not in `recall` returns False without
\* raising (the lookup itself completing), adds no row to `labeled` and leaves
\* `recall` unchanged; and label() returns False in this case only, every
\* other completed call returning True.
C5_LabelAbsentIdReturnsFalse ==
    [][ /\ (last'.op = "label_id" /\ ~HasId(db.recall, last'.id)
                /\ last'.fault # "select")
            => (last'.ret = "False" /\ db' = db)
        /\ last'.ret = "False"
            => (last'.op = "label_id" /\ ~HasId(db.recall, last'.id))
        /\ (last'.op \in {"label_id", "label_ques"} /\ last'.ret # "raised"
                /\ ~(last'.op = "label_id" /\ ~HasId(db.recall, last'.id)))
            => last'.ret = "True" ]_vars

\* label(id, _) returned False for an id that no entry of a non-empty `recall`
\* carries.
C5_Witness ==
    /\ last.op = "label_id"
    /\ last.ret = "False"
    /\ db.recall # <<>>
    /\ ~HasId(db.recall, last.id)

\* C6: label(text, answer) succeeds in every ledger state (the insert itself
\* completing), appends exactly one row (text, answer) to `labeled` and leaves
\* `recall` unchanged.
C6_LabelByTextAlwaysAppends ==
    [][ (last'.op = "label_ques" /\ last'.fault = "none") =>
          /\ last'.ret = "True"
          /\ db'.labeled = Append(db.labeled, <<last'.ques, last'.ans>>)
          /\ db'.recall = db.recall ]_vars

\* A text was labeled that is in `recall` and was in `labeled` already.
C6_Witness ==
    /\ last.op = "label_ques"
    /\ last.ret = "True"
    /\ \E k \in 1..Len(db.recall) : db.recall[k].ques = last.ques
    /\ \E k \in 1..(Len(db.labeled) - 1) : db.labeled[k][1] = last.ques

\* C7: every recall(q) adds one entry, after the existing ones, whose id is
\* larger than (so different from) the id of every entry the ledger holds or
\* has ever held, ids consumed by a promotion included; opening the ledger
\* again leaves the rows and the id counter unchanged.
C7_RecallIdsFresh ==
    [][ /\ (last'.op = "recall" /\ last'.ret = "None") =>
              /\ Len(db'.recall) = Len(db.recall) + 1
              /\ SubSeq(db'.recall, 1, Len(db.recall)) = db.recall
              /\ db'.recall[Len(db'.recall)].ques = last'.ques
              /\ \A j \in hist.ever \cup RowIds(db.recall) :
                    j < db'.recall[Len(db'.recall)].id
        /\ last'.op = "init" => db' = db ]_vars

\* A recall() after the entry with the largest id so far was promoted.
C7_Witness ==
    /\ last.op = "recall"
    /\ last.ret = "None"
    /\ hist.promoted # {}
    /\ \A j \in hist.promoted : \A k \in RowIds(db.recall) \ {db.seq} : k < j

\* C8: rows of `labeled` are append-only: no operation removes or changes a
\* row that is durably in `labeled`; the table only grows at its end.
C8_LabeledAppendOnly ==
    [][ IsPrefix(db.labeled, db'.labeled) ]_vars

\* Three rows of `labeled`, the first and the last for the same text.
C8_Witness ==
    /\ Len(db.labeled) = 3
    /\ db.labeled[1][1] = db.labeled[3][1]
    /\ last.op = "label_ques"

\* The durable effect of a completed call, from its arguments and result.
Effect(d, call) ==
    IF call.op = "recall"
    THEN [d EXCEPT !.recall = Append(@, [id |-> d.seq + 1, ques |-> call.ques]),
                   !.seq = @ + 1]
    ELSE IF call.op = "label_ques"
    THEN [d EXCEPT !.labeled = Append(@, <<call.ques, call.ans>>)]
    ELSE IF call.op = "label_id" /\ call.ret = "True"
    THEN [d EXCEPT !.recall = Without(@, call.id),
                   !.labeled = Append(@, <<d.recall[QuesOfId(d.recall, call.id)].ques,
                                           call.ans>>)]
    ELSE d

\* C9: outside a session scope each operation is its own atomic, committed
\* unit: when recall(), label(id, _) or label(text, _) returns normally its
\* writes are durable, and are what a later operation or opening sees; a call
\* that raises leaves the durable ledger unchanged.
C9_CommitPerCall ==
    [][ (~conn.open /\ last'.op \in {"recall", "label_id", "label_ques"}) =>
          /\ db' = IF last'.ret = "raised" THEN db ELSE Effect(db, last')
          /\ ~conn'.open ]_vars

\* Outside a scope, a recall() returned and its entry is in the file.
C9_Witness ==
    /\ ~last.session
    /\ last.op = "recall"
    /\ last.ret = "None"
    /\ HasId(db.recall, db.seq)

\* C10: sample_from_recall returns (id, text) of the entry of `recall` with
\* the lowest id, returns None exactly when `recall` is empty, and changes
\* neither table; on a fresh ledger, recall(q) followed by it returns (1, q).
C10_SampleReturnsFirst ==
    [][ (last'.op = "sample" /\ last'.fault = "none") =>
          /\ db' = db
          /\ (last'.ret = "None") <=> (db.recall = <<>>)
          /\ db.recall # <<>> =>
                /\ last'.ret = "row"
                /\ HasId(db.recall, last'.id)
                /\ \A j \in RowIds(db.recall) : last'.id <= j
                /\ db.recall[QuesOfId(db.recall, last'.id)].ques = last'.ques
          /\ (last.op = "recall" /\ last.ret = "None" /\ hist.ever = {db.seq}
                /\ hist.promoted = {} /\ db.labeled = <<>>)
                => (last'.id = 1 /\ last'.ques = last.ques) ]_vars

\* An entry was returned from a `recall` that holds two.
C10_Witness ==
    /\ last.op = "sample"
    /\ last.ret = "row"
    /\ Len(db.recall) >= 2

\* C18: every exit from a session scope, clean or failing, closes the shared
\* connection and puts the ledger back in per-operation mode (the next call
\* opens its own connection); a failure raised inside the scope is not
\* swallowed by the exit: it reaches the caller.
C18_ScopeExitClosesAndPropagates ==
    [][ /\ (ExitClean \/ ExitFail) => conn' = NoConn
        /\ ExitFail => last'.ret = "raised"
        /\ ExitClean => last'.ret = "None"
        /\ (last.op = "exit"
              /\ last'.op \in {"recall", "sample", "label_id", "label_ques"})
            => ~last'.session ]_vars

\* A scope that wrote an entry was left by an exception.
C18_Witness ==
    /\ last.op = "exit"
    /\ last.ret = "raised"
    /\ ~conn.open
    /\ db.recall # <<>>

\* C19: conservation.  After any sequence of operations, the number of
\* recall() calls equals |recall| plus the number of successful label-by-id
\* calls, |labeled| equals the successful label-by-id calls plus the
\* label-by-text calls, and an entry leaves `recall` only through a successful
\* label(id, _) on its own id.
C19_Conservation ==
    [][ /\ hist'.recalls = Len(db'.recall) + hist'.promotions
        /\ Len(db'.labeled) = hist'.promotions + hist'.texts
        /\ \A i \in RowIds(db.recall) \ RowIds(db'.recall) :
              last'.op = "label_id" /\ last'.id = i /\ last'.ret = "True" ]_vars

\* Two recalled, the first one promoted, the second one still unresolved.
C19_Witness ==
    /\ hist.recalls = 2
    /\ hist.promotions = 1
    /\ RowIds(db.recall) = {2}

\* ---- properties of the knowledge base --------------------------------------------
\* What the properties read off a table or a sheet, written without the
\* operators of the model.
Count(seq, P(_)) == Cardinality({k \in 1..Len(seq) : P(seq[k])})

\* occurrences of the text t in the paraphrase cells (third cell on) of a row
CellCount(cells, t) == Cardinality({j \in 3..Len(cells) : cells[j] = t})

NonEmptyCells(rows) ==
    Cardinality(UNION { { <<k, j>> : j \in {i \in 3..Len(rows[k]) : rows[k][i] # NaN} } :
                        k \in 1..Len(rows) })

\* C11: to_sqlite(path) on a path that already exists fails with AssertionError
\* before anything is written: every store file is as before, so a second
\* export to the same path fails and leaves the first export intact.
C11_ExportRefusesExistingPath ==
    [][ (lcall'.op = "to_sqlite" /\ stores[lcall'.path].exists) =>
            (lcall'.ret = "AssertionError" /\ stores' = stores) ]_allvars

\* A second export to the path of a completed export was refused.
C11_Witness ==
    /\ lcall.op = "to_sqlite"
    /\ lcall.ret = "AssertionError"
    /\ stores[lcall.path].main # <<>>

\* C12: after a successful to_sqlite, main_ques has one row per source row
\* with id the row index; sub_ques has one row per non-empty paraphrase cell
\* plus one row with the canonical text per source row; every
\* sub_ques.main_ques_id is the id of a main_ques row; and the sub_ques rows
\* are, one to one and in order, the samples of the flattened pool.
C12_ExportedTables ==
    [][ (lcall'.op = "to_sqlite" /\ lcall'.ret = "ok") =>
          LET st == stores'[lcall'.path]
              rows == loader.df.rows
          IN /\ Len(st.main) = Len(rows)
             /\ \A k \in 1..Len(rows) :
                   st.main[k] = [id |-> k - 1, ques |-> rows[k][1],
                                 ans |-> rows[k][2]]
             /\ Len(st.sub) = NonEmptyCells(rows) + Len(rows)
             /\ \A k \in 1..Len(rows) :
                   Count(st.sub, LAMBDA s : s.main_ques_id = k - 1
                                            /\ s.ques = rows[k][1])
                     = CellCount(rows[k], rows[k][1]) + 1
             /\ \A k \in 1..Len(st.sub) :
                   \E j \in 1..Len(st.main) :
                       st.main[j].id = st.sub[k].main_ques_id
             /\ \A k, j \in 1..Len(st.sub) : k # j => st.sub[k].id # st.sub[j].id
             /\ Len(st.sub) = Len(loader.pool)
             /\ \A k \in 1..Len(st.sub) :
                   /\ st.sub[k].ques = loader.pool[k].form
                   /\ st.sub[k].main_ques_id = loader.pool[k].id ]_allvars

\* Two rows, one with a form and one with an empty paraphrase cell, were
\* exported: three rows in sub_ques.
C12_Witness ==
    /\ lcall.op = "to_sqlite"
    /\ lcall.ret = "ok"
    /\ Len(stores[lcall.path].main) = 2
    /\ Len(stores[lcall.path].sub) = 3

\* C13: for every loaded table the flattened pool holds, per row r, one
\* sample (form, canonical text of r, r) for each non-empty paraphrase cell
\* and one more sample (canonical, canonical, r); empty cells give no sample,
\* so the size is the number of non-empty paraphrase cells plus the number of
\* rows, also when the canonical text is among the row's paraphrase cells.
C13_FlattenedPool ==
    loader.ok =>
        /\ Size(loader) = NonEmptyCells(sheet.rows) + Len(sheet.rows)
        /\ \A k \in 1..Len(loader.pool) :
              /\ loader.pool[k].id \in 0..(Len(sheet.rows) - 1)
              /\ loader.pool[k].main = sheet.rows[loader.pool[k].id + 1][1]
              /\ loader.pool[k].form # NaN
        /\ \A r \in 1..Len(sheet.rows) :
              \A t \in {loader.pool[k].form : k \in 1..Len(loader.pool)}
                       \cup {sheet.rows[r][j] : j \in 1..Len(sheet.rows[r])} :
                  t # NaN =>
                    Count(loader.pool, LAMBDA s : s.id = r - 1 /\ s.form = t)
                      = CellCount(sheet.rows[r], t)
                        + (IF t = sheet.rows[r][1] THEN 1 ELSE 0)

\* A loaded row with an empty paraphrase cell and its canonical text as an
\* explicit paraphrase: two samples, both the canonical text.
C13_Witness ==
    /\ loader.ok
    /\ Len(sheet.rows) = 1
    /\ CellCount(sheet.rows[1], NaN) = 1
    /\ CellCount(sheet.rows[1], sheet.rows[1][1]) = 1
    /\ Size(loader) = 2

\* C15: sample(n) returns n samples taken from n pairwise distinct positions
\* of the flattened pool whenever 0 <= n <= size(), leaves the pool unchanged,
\* and fails whenever n > size().
C15_SampleDistinctPositions ==
    [][ lcall'.op = "sample" =>
          LET n == lcall'.n
              picks == lcall'.picks
          IN /\ (0 <= n /\ n <= Size(loader)) =>
                   /\ lcall'.ret = "ok"
                   /\ Len(picks) = n
                   /\ \A i \in 1..n : picks[i] \in 1..Size(loader)
                   /\ Cardinality({picks[i] : i \in 1..n}) = n
             /\ n > Size(loader) => lcall'.ret = "raised"
             /\ loader' = loader ]_allvars

\* The whole pool of two samples was drawn.
C15_Witness ==
    /\ lcall.op = "sample"
    /\ lcall.ret = "ok"
    /\ lcall.n = 2
    /\ Size(loader) = 2

\* C16: for every sample (form, canonical, answerId) of the flattened pool,
\* get_answer(answerId) returns the answer loaded for the row the sample came
\* from; get_answer of an id outside 0..rowCount-1 fails instead of returning
\* some row's answer.
C16_GetAnswerRoundTrip ==
    [][ lcall'.op = "get_answer" =>
          LET i == lcall'.n
          IN /\ (\E k \in 1..Len(loader.pool) : loader.pool[k].id = i) =>
                   /\ lcall'.ret = "ok"
                   /\ \A k \in 1..Len(loader.pool) :
                         loader.pool[k].id = i =>
                           /\ sheet.rows[i + 1][1] = loader.pool[k].main
                           /\ sheet.rows[i + 1][2] = lcall'.value
             /\ (i < 0 \/ i > Len(sheet.rows) - 1) => lcall'.ret = "raised"
             /\ lcall'.ret = "ok" => lcall'.value = sheet.rows[i + 1][2] ]_allvars

\* The answer of the second row was asked and returned.
C16_Witness ==
    /\ lcall.op = "get_answer"
    /\ lcall.ret = "ok"
    /\ lcall.n = 1
    /\ lcall.value = Text("ans", 2)
    /\ \E k \in 1..Len(loader.pool) :
          loader.pool[k].id = 1 /\ loader.pool[k].form = Text("form", 1)

\* the number of rows among the first i of sub_ques that belong to main
\* question id
Rank(sub, i, id) == Cardinality({k \in 1..i : sub[k].main_ques_id = id})

\* C17, as stated: the converter's "knowledge" sheet has exactly the three
\* columns [canonical question, answer, form] and one data row per
\* (canonical question, form) pair: a canonical question with k forms in
\* sub_ques appears on k rows, each carrying one form.
C17_OneRowPerPair ==
    (lcall.op = "convert" /\ lcall.ret = "ok") =>
        /\ Len(sheet.header) = 3
        /\ Len(sheet.rows) = Len(stores[lcall.path].sub)
        /\ \A k \in 1..Len(sheet.rows) : Len(sheet.rows[k]) = 3

\* C17, amended: the converter's "knowledge" sheet has a header of three
\* titles and one data row per main_ques row, at sheet row id + 2, carrying
\* the question, the answer and then, from the third column on, every
\* sub_ques form of that question in sub_ques order: a canonical question with
\* k forms is one row of k + 2 cells, its forms grouped in further columns.
C17_OneRowPerCanonical ==
    (lcall.op = "convert" /\ lcall.ret = "ok") =>
        LET st == stores[lcall.path]
        IN /\ sheet.header = <<ColMain, ColStdAnswer, ColForm>>
           /\ Len(sheet.rows) = Len(st.main)
           /\ \A k \in 1..Len(st.main) :
                 LET row == sheet.rows[st.main[k].id + 1]
                 IN /\ row[1] = st.main[k].ques
                    /\ row[2] = st.main[k].ans
                    /\ Len(row) = 2 + Rank(st.sub, Len(st.sub), st.main[k].id)
           /\ \A i \in 1..Len(st.sub) :
                 sheet.rows[st.sub[i].main_ques_id + 1]
                           [2 + Rank(st.sub, i, st.sub[i].main_ques_id)]
                   = st.sub[i].ques

\* A store whose only question has a form besides itself was converted: one
\* data row of four cells.
C17_Witness ==
    /\ lcall.op = "convert"
    /\ lcall.ret = "ok"
    /\ Len(stores[lcall.path].sub) = 2
    /\ Len(sheet.rows) = 1
    /\ Len(sheet.rows[1]) = 4

\* C14: canonical ids survive the manual loop: after exporting a table with
\* to_sqlite and converting the store back to a sheet, loading that sheet
\* succeeds and exporting it again writes main_ques rows with the ids, texts
\* and answers of the store the sheet was written from.
C14_IdsSurviveManualLoop ==
    (lcall.op = "load" /\ sheet.src \in Paths
        /\ stores[sheet.src].main # <<>>) =>
        /\ lcall.ret = "ok"
        /\ loader.ok
        /\ MainRows(loader.df) = stores[sheet.src].main

\* C20: each export -> convert -> reload -> export cycle adds one more
\* sub_ques row (a further copy of the canonical text) per canonical question:
\* the pool loaded from the converted sheet and the sub_ques rows of its
\* export are larger than the store's sub_ques by the row count, while
\* main_ques is the same.
C20_CycleAddsOneFormPerCanonical ==
    (lcall.op = "load" /\ sheet.src \in Paths
        /\ stores[sheet.src].main # <<>>) =>
        LET st == stores[sheet.src]
        IN /\ loader.ok
           /\ Size(loader) = Len(st.sub) + Len(st.main)
           /\ Len(SubRows(loader.df)) = Len(st.sub) + Len(st.main)
           /\ \A k \in 1..Len(st.main) :
                 Rank(SubRows(loader.df), Len(SubRows(loader.df)), st.main[k].id)
                   = Rank(st.sub, Len(st.sub), st.main[k].id) + 1
           /\ Len(MainRows(loader.df)) = Len(st.main)

====
